---- MODULE Spec2Model ----
(***************************************************************************)
(* A model of the deeplx-cli translation client (src/main.go).             *)
(*                                                                         *)
(* One process invocation at a time: Start* picks a command and its        *)
(* inputs (flags, environment, positional arguments), runs the code up to  *)
(* the first blocking point (a network call or a read from standard        *)
(* input), and every later action is the arrival of what the process is    *)
(* blocked on, followed by all the code up to the next blocking point or   *)
(* to process exit.  The config file survives from one invocation to the   *)
(* next; everything else is per invocation.                                *)
(*                                                                         *)
(* Strings are sequences of tokens (TLA+ strings); a language code is a    *)
(* sequence of one-character tokens so that strings.ToUpper is a real      *)
(* conversion.  strings.Contains is containment of a contiguous            *)
(* subsequence of tokens.                                                  *)
(***************************************************************************)
EXTENDS Integers, Sequences, FiniteSets, TLC

\* ------------------------------------------------------------------ bounds
MaxLangLen == 2      \* longest --source value made of case-mixed letters
MaxAlts    == 2      \* most alternatives a response body lists
MaxArgs    == 2      \* most positional arguments of the main translate command

\* ------------------------------------------------------- string primitives
\* strings.Contains(s, sub)
Contains(s, sub) ==
    \E i \in 0..(Len(s) - Len(sub)) : SubSeq(s, i + 1, i + Len(sub)) = sub

\* unicode.ToUpper on the letters the model uses; every other rune is kept
ToUpperChar(c) ==
    CASE c = "a" -> "A" [] c = "e" -> "E" [] c = "h" -> "H" [] c = "n" -> "N"
      [] c = "o" -> "O" [] c = "s" -> "S" [] c = "t" -> "T" [] c = "u" -> "U"
      [] c = "z" -> "Z"
      [] OTHER -> c

\* a mutant of ToUpper: leaves the first rune as it is
ToUpperTail(s) == [i \in 1..Len(s) |-> IF i = 1 THEN s[i] ELSE ToUpperChar(s[i])]

\* strings.ToUpper
ToUpper(s) == [i \in 1..Len(s) |-> ToUpperChar(s[i])]

LowerLetters == {"a", "e", "h", "n", "o", "s", "t", "u", "z"}

\* strings.ToLower on the letters the model reads from standard input
ToLower(s) == [i \in 1..Len(s) |-> IF s[i] = "Y" THEN "y" ELSE s[i]]

\* strconv / %d for the integers the model prints
Itoa(n) ==
    CASE n = 0 -> "0" [] n = 1 -> "1" [] n = 2 -> "2" [] n = 3 -> "3"
      [] n = 200 -> "200" [] n = 401 -> "401" [] n = 404 -> "404"
      [] n = 429 -> "429" [] n = 500 -> "500" [] n = 503 -> "503"
      [] OTHER -> "n"

\* ---------------------------------------------------------------- constants
HTTPStatusOK              == 200
HTTPStatusUnauthorized    == 401
HTTPStatusNotFound        == 404
HTTPStatusTooManyRequests == 429
DefaultTimeout            == 30

HardURL     == <<"http://localhost:1188">>      \* main.go:52
RemoteURL   == <<"https://deeplx.example">>
NoStr       == << >>
AutoLang    == <<"a", "u", "t", "o">>           \* main.go:70
EnLang      == <<"e", "n">>                     \* main.go:76

\* ------------------------------------------------------------------- JSON
\* A JSON value as encoding/json sees it.  Strings hold a Str, arrays a
\* sequence of Str (an array with a non-string element is JBad).
JAbsent    == [t |-> "absent"]
JNull      == [t |-> "null"]
JBad       == [t |-> "bad"]            \* a value of a type no field accepts
JNum(n)    == [t |-> "num", n |-> n]
JStr(s)    == [t |-> "str", s |-> s]
JArr(l)    == [t |-> "arr", l |-> l]
JObj(c, d, a) == [t |-> "obj", code |-> c, data |-> d, alternatives |-> a]

\* an HTTP body: bytes that are not JSON at all, or the text of a JSON value
TextBody(raw) == [kind |-> "text", raw |-> raw]
JsonBody(v)   == [kind |-> "json", v |-> v]

\* decoding one field; an absent or null field leaves the zero value
DecodeInt(j) ==
    CASE j.t \in {"absent", "null"} -> [ok |-> TRUE, v |-> 0]
      [] j.t = "num"                -> [ok |-> TRUE, v |-> j.n]
      [] OTHER                      -> [ok |-> FALSE, v |-> 0]
DecodeStr(j) ==
    CASE j.t \in {"absent", "null"} -> [ok |-> TRUE, v |-> NoStr]
      [] j.t = "str"                -> [ok |-> TRUE, v |-> j.s]
      [] OTHER                      -> [ok |-> FALSE, v |-> NoStr]
DecodeStrList(j) ==
    CASE j.t \in {"absent", "null"} -> [ok |-> TRUE, v |-> << >>]
      [] j.t = "arr"                -> [ok |-> TRUE, v |-> j.l]
      [] OTHER                      -> [ok |-> FALSE, v |-> << >>]

\* the zero TranslationResponse (main.go:30-38)
ZeroResponse ==
    [Code |-> 0, ID |-> 0, Data |-> NoStr, Alternatives |-> << >>,
     SourceLang |-> NoStr, TargetLang |-> NoStr, Method |-> NoStr]

\* a mutant of UnmarshalResponse: decoding errors are dropped
UnmarshalLenient(body) ==
    IF body.kind = "json" /\ body.v.t = "obj"
    THEN [err |-> NoStr,
          res |-> [ZeroResponse EXCEPT !.Code = DecodeInt(body.v.code).v,
                                       !.Data = DecodeStr(body.v.data).v,
                                       !.Alternatives = DecodeStrList(body.v.alternatives).v]]
    ELSE [err |-> NoStr, res |-> ZeroResponse]

\* json.Unmarshal(body, &result) for a TranslationResponse: a syntax error
\* decodes nothing, JSON null is accepted and changes nothing, a value of the
\* wrong type is skipped and reported after the other fields are decoded.
UnmarshalResponse(body) ==
    IF body.kind = "text"
    THEN [err |-> <<"invalid character looking for beginning of value">>,
          res |-> ZeroResponse]
    ELSE CASE body.v.t = "null" -> [err |-> NoStr, res |-> ZeroResponse]
           [] body.v.t = "obj"  ->
                LET c == DecodeInt(body.v.code)
                    d == DecodeStr(body.v.data)
                    a == DecodeStrList(body.v.alternatives)
                IN  [err |-> IF c.ok /\ d.ok /\ a.ok THEN NoStr
                             ELSE <<"json: cannot unmarshal value into Go struct field of TranslationResponse">>,
                     res |-> [ZeroResponse EXCEPT !.Code = c.v, !.Data = d.v,
                                                  !.Alternatives = a.v]]
           [] OTHER -> [err |-> <<"json: cannot unmarshal value into Go value of type main.TranslationResponse">>,
                        res |-> ZeroResponse]

RECURSIVE JoinAll(_)
JoinAll(l) == IF l = << >> THEN << >> ELSE Head(l) \o <<",">> \o JoinAll(Tail(l))

RenderField(name, j) ==
    CASE j.t = "absent" -> << >>
      [] j.t = "null"   -> <<name, "null">>
      [] j.t = "bad"    -> <<name, "true">>
      [] j.t = "num"    -> <<name, Itoa(j.n)>>
      [] j.t = "str"    -> <<name>> \o j.s
      [] j.t = "arr"    -> <<name, "[">> \o JoinAll(j.l) \o <<"]">>

\* string(body): the bytes of the body as text
RawBody(body) ==
    IF body.kind = "text" THEN body.raw
    ELSE CASE body.v.t = "null" -> <<"null">>
           [] body.v.t = "obj"  -> <<"{">> \o RenderField("code:", body.v.code)
                                    \o RenderField("data:", body.v.data)
                                    \o RenderField("alternatives:", body.v.alternatives)
                                    \o <<"}">>
           [] OTHER -> <<"[]">>

\* ------------------------------------------------------------- the network
\* The text of the *url.Error that http.Client returns when no response is
\* obtained.  "deadline" is the expiry of http.Client.Timeout.
NetErrKinds == {"refused", "nohost", "dialtimeout", "deadline", "eof"}

NetErrText(op, url, kind) ==
    <<op, "\"">> \o url \o <<"\":">> \o
    CASE kind = "refused"     -> <<"dial tcp", "connect:", "connection refused">>
      [] kind = "nohost"      -> <<"dial tcp", "lookup: no such host">>
      [] kind = "dialtimeout" -> <<"dial tcp", "i/o timeout">>
      [] kind = "deadline"    -> <<"context deadline exceeded (Client.Timeout exceeded while awaiting headers)">>
      [] kind = "badheader"   -> <<"net/http: invalid header field value for \"Authorization\"">>
      [] OTHER                -> <<"EOF">>

CannotConnect == "cannot connect to DeepLX server"
DockerRun     == "docker run -d -p 1188:1188 ghcr.io/owo-network/deeplx:latest"
OtherServer   == "translate --url https://your-server.com \"Hello world\""

\* a mutant of IsConnErr: only "connection refused" is recognised
IsConnErrRefusedOnly(errText) == Contains(errText, <<"connection refused">>)

\* main.go:484 and main.go:552: the test that selects the guidance message
IsConnErr(errText) ==
    Contains(errText, <<"connection refused">>) \/ Contains(errText, <<"dial tcp">>)

\* the error checkServerConnection returns for a failed GET (main.go:551-564)
ProbeError(url, kind) ==
    LET e == NetErrText("Get", url, kind)
    IN  IF IsConnErr(e)
        THEN <<CannotConnect, "at">> \o url \o
             <<"No DeepLX server found. To start one:", DockerRun,
               "Or specify a different server:", OtherServer>>
        ELSE <<"server not reachable at">> \o url \o <<":">> \o e

\* the error translate returns for a failed POST (main.go:482-501)
PostError(url, kind) ==
    LET e == NetErrText("Post", url \o <<"/translate">>, kind)
    IN  IF IsConnErr(e)
        THEN <<CannotConnect, "at">> \o url \o
             <<"It looks like DeepLX is not running. To fix this:",
               "1. Start DeepLX with Docker:", DockerRun,
               "2. Or use a different server:", OtherServer,
               "3. Or configure a default server:",
               "translate config set --url https://your-server.com",
               "For more info: https://github.com/OwO-Network/DeepLX">>
        ELSE <<"failed to send request:">> \o e

\* a mutant of StatusError: 429 is not told apart from the other statuses
StatusErrorNo429(url, status, body) ==
    CASE status = HTTPStatusUnauthorized -> <<"authentication", "failed - check your token">>
      [] status = HTTPStatusNotFound -> <<"server endpoint not found - check your URL:">> \o url
      [] OTHER -> <<"server returned status", Itoa(status), ":">> \o RawBody(body)

\* the error for a response whose status is not 200 (main.go:516-527)
StatusError(url, status, body) ==
    CASE status = HTTPStatusUnauthorized ->
            <<"authentication", "failed - check your token">>
      [] status = HTTPStatusTooManyRequests ->
            <<"rate limit exceeded - please wait and try again">>
      [] status = HTTPStatusNotFound ->
            <<"server endpoint not found - check your URL:">> \o url
      [] OTHER ->
            <<"server returned status", Itoa(status), ":">> \o RawBody(body)

\* a mutant of HandleResponse: the payload code is looked at before the status
HandleResponseCodeFirst(url, status, body) ==
    LET u == UnmarshalResponse(body)
    IN  IF u.err = NoStr /\ u.res.Code # HTTPStatusOK
        THEN [resp |-> ZeroResponse, ok |-> FALSE,
              err |-> <<"translation failed with code", Itoa(u.res.Code), ":">>
                      \o u.res.Data]
        ELSE IF status # HTTPStatusOK
        THEN [resp |-> ZeroResponse, ok |-> FALSE, err |-> StatusError(url, status, body)]
        ELSE IF u.err # NoStr
        THEN [resp |-> ZeroResponse, ok |-> FALSE,
              err |-> <<"failed to parse response:">> \o u.err]
        ELSE [resp |-> u.res, ok |-> TRUE, err |-> NoStr]

\* a mutant of HandleResponse: the payload code is not looked at
HandleResponseNoCode(url, status, body) ==
    IF status # HTTPStatusOK
    THEN [resp |-> ZeroResponse, ok |-> FALSE, err |-> StatusError(url, status, body)]
    ELSE LET u == UnmarshalResponse(body)
         IN  IF u.err # NoStr
             THEN [resp |-> ZeroResponse, ok |-> FALSE,
                   err |-> <<"failed to parse response:">> \o u.err]
             ELSE [resp |-> u.res, ok |-> TRUE, err |-> NoStr]

\* a mutant of HandleResponse: the body is parsed before the status is looked at
HandleResponseParseFirst(url, status, body) ==
    LET u == UnmarshalResponse(body)
    IN  IF u.err # NoStr
        THEN [resp |-> ZeroResponse, ok |-> FALSE,
              err |-> <<"failed to parse response:">> \o u.err]
        ELSE IF status # HTTPStatusOK
        THEN [resp |-> ZeroResponse, ok |-> FALSE, err |-> StatusError(url, status, body)]
        ELSE IF u.res.Code # HTTPStatusOK
             THEN [resp |-> ZeroResponse, ok |-> FALSE,
                   err |-> <<"translation failed with code", Itoa(u.res.Code), ":">>
                           \o u.res.Data]
             ELSE [resp |-> u.res, ok |-> TRUE, err |-> NoStr]

\* what translate returns for a received response (main.go:515-540);
\* ok = FALSE stands for the nil *TranslationResponse
HandleResponse(url, status, body) ==
    IF status # HTTPStatusOK
    THEN [resp |-> ZeroResponse, ok |-> FALSE, err |-> StatusError(url, status, body)]
    ELSE LET u == UnmarshalResponse(body)
         IN  IF u.err # NoStr
             THEN [resp |-> ZeroResponse, ok |-> FALSE,
                   err |-> <<"failed to parse response:">> \o u.err]
             ELSE IF u.res.Code # HTTPStatusOK
             THEN [resp |-> ZeroResponse, ok |-> FALSE,
                   err |-> <<"translation failed with code", Itoa(u.res.Code), ":">>
                           \o u.res.Data]
             ELSE [resp |-> u.res, ok |-> TRUE, err |-> NoStr]

\* ----------------------------------------------------- flags, env, config
Unset  == [set |-> FALSE, val |-> NoStr]
Set(v) == [set |-> TRUE, val |-> v]

\* the values the model draws for each source of a setting, kept distinct so
\* that the source of a resolved value can be told
FlagURL == <<"http://flag.example">>
EnvURL  == <<"http://env.example">>
FlagTok == <<"flag-token">>
EnvTok  == <<"env-token">>
Env2Tok == <<"env2-token">>
CfgTok  == <<"cfg-token">>
CfgURL  == <<"http://cfg.example">>
TypedTok == <<"typed-token">>
OtherTok == <<"other-token">>
\* a token with a control character in it, as --token $'bad\ntoken' passes one
BadTok   == <<"bad", "\n", "token">>

\* net/http sends no request with a header value that holds a control
\* character: client.Do returns an error instead (main.go:467, 481)
ValidHeaderValue(v) == \A i \in 1..Len(v) : v[i] \notin {"\n", "\r"}

\* the config file on disk: absent, unreadable, not JSON, or a JSON object
\* whose two fields are JSON values (main.go:24-27)
FileMissing    == [kind |-> "missing", url |-> JAbsent, token |-> JAbsent]
FileUnreadable == [kind |-> "unreadable", url |-> JAbsent, token |-> JAbsent]
FileGarbage    == [kind |-> "text", url |-> JAbsent, token |-> JAbsent]
FileJson(u, k) == [kind |-> "json", url |-> u, token |-> k]

ZeroConfig == [DefaultURL |-> NoStr, DefaultToken |-> NoStr]

\* loadConfig (main.go:570-587): the result of json.Unmarshal is ignored, so
\* the fields that did decode are kept
loadConfig(file) ==
    IF file.kind # "json" THEN ZeroConfig
    ELSE [DefaultURL |-> DecodeStr(file.url).v, DefaultToken |-> DecodeStr(file.token).v]

\* main.go:52-60
defaultURL(config)   == IF config.DefaultURL # NoStr THEN config.DefaultURL ELSE HardURL
defaultToken(config) == IF config.DefaultToken # NoStr THEN config.DefaultToken ELSE NoStr

\* urfave/cli: the first environment variable of EnvVars that is set
RECURSIVE FromEnv(_)
FromEnv(envs) ==
    IF envs = << >> THEN Unset
    ELSE IF Head(envs).set THEN Head(envs) ELSE FromEnv(Tail(envs))

\* a mutant of StringFlag: the value given in Value wins over the environment
StringFlagValueFirst(flag, envs, value) ==
    IF flag.set THEN flag.val
    ELSE IF value # NoStr THEN value
    ELSE IF FromEnv(envs).set THEN FromEnv(envs).val ELSE value

\* urfave/cli StringFlag{Value, EnvVars}: command line, then environment,
\* then Value
StringFlag(flag, envs, value) ==
    IF flag.set THEN flag.val
    ELSE IF FromEnv(envs).set THEN FromEnv(envs).val ELSE value

\* c.String("url") and c.String("token") of the global flags (main.go:79-92)
ResolveURL(i, file) ==
    StringFlag(i.url, <<i.envURL>>, defaultURL(loadConfig(file)))
ResolveToken(i, file) ==
    StringFlag(i.token, <<i.envTOKEN, i.envDEEPLX>>, defaultToken(loadConfig(file)))

\* a mutant of SetFlag: a flag not given to config set takes the value of the
\* global flag of the same name
SetFlagInherits(local, global) == IF local.set THEN local.val ELSE global

\* c.String("url") and c.String("token") in setConfig: config set defines
\* flags of these names itself, with no EnvVars and no Value (main.go:115-125),
\* and urfave/cli looks a name up in the nearest flag set that defines it
SetFlag(local, global) == StringFlag(local, << >>, NoStr)

\* a mutant of Join: only the first argument is taken
JoinFirstOnly(args) == IF args = << >> THEN NoStr ELSE args[1]

\* strings.Join(args, " ")
RECURSIVE Join(_)
Join(args) ==
    IF args = << >> THEN NoStr
    ELSE IF Len(args) = 1 THEN args[1]
    ELSE args[1] \o <<" ">> \o Join(Tail(args))

\* ------------------------------------------------------------------ inputs
SeqsUpTo(S, n) == UNION {[1..k -> S] : k \in 1..n}

\* --source values: the default left alone, or any case-mix of two letters
SourceFlags == {Unset} \cup {Set(l) : l \in SeqsUpTo({"e", "E"}, MaxLangLen)}
TargetFlags == {Unset, Set(<<"e", "s">>), Set(<<"z", "h", "-", "H", "a", "n", "s">>)}
TimeoutFlags == {DefaultTimeout, 1, 0, -1}

BaseInv ==
    [args |-> << <<"Hola">> >>, source |-> Unset, target |-> Unset,
     url |-> Unset, token |-> Unset, alternatives |-> FALSE,
     timeout |-> DefaultTimeout, debug |-> FALSE,
     envURL |-> Unset, envTOKEN |-> Unset, envDEEPLX |-> Unset,
     setURL |-> Unset, setToken |-> Unset]

LangInvs == {[BaseInv EXCEPT !.source = s, !.target = t] :
                s \in SourceFlags, t \in TargetFlags}
SettingInvs ==
    {[BaseInv EXCEPT !.url = u, !.envURL = eu, !.token = k,
                     !.envTOKEN = e1, !.envDEEPLX = e2] :
        u \in {Unset, Set(FlagURL), Set(NoStr)}, eu \in {Unset, Set(EnvURL)},
        k \in {Unset, Set(FlagTok), Set(NoStr)}, e1 \in {Unset, Set(EnvTok)},
        e2 \in {Unset, Set(Env2Tok)}}
OutputInvs ==
    {[BaseInv EXCEPT !.args = a, !.alternatives = alt, !.debug = d, !.token = k] :
        a \in {<< >>, << <<"Hola">> >>, << <<"Hello">>, <<"world">> >>},
        alt \in BOOLEAN, d \in BOOLEAN, k \in {Unset, Set(FlagTok)}}
TimeoutInvs == {[BaseInv EXCEPT !.timeout = t] : t \in TimeoutFlags}
\* the positional arguments; an argument may be the empty string
ArgWords == {<<"Hola">>, <<"mundo">>, NoStr}
ArgInvs  == {[BaseInv EXCEPT !.args = a] : a \in SeqsUpTo(ArgWords, MaxArgs)}

\* a token that cannot be sent as a header value
BadTokInvs == {[BaseInv EXCEPT !.token = Set(BadTok)]}

MainInvs ==
    LangInvs \cup SettingInvs \cup OutputInvs \cup TimeoutInvs \cup ArgInvs \cup BadTokInvs

\* what a server may answer
DataValues == {<<"Hola">>, <<"busy">>, <<"authentication", "required">>}
AltLists   == SeqsUpTo({<<"Buenas">>, <<"Saludos">>}, MaxAlts) \cup {<< >>}
ObjBodies ==
    {JsonBody(JObj(c, d, a)) :
        c \in {JNum(200), JNum(503), JAbsent, JBad},
        d \in {JStr(v) : v \in DataValues} \cup {JAbsent, JBad},
        a \in {JArr(l) : l \in AltLists} \cup {JAbsent}}
Bodies ==
    {b \in ObjBodies :
        \/ b.v.alternatives = JAbsent
        \/ b.v.code = JNum(200) /\ b.v.data = JStr(<<"Hola">>)}
    \cup {TextBody(NoStr), TextBody(<<"<html>", "authentication", "needed">>),
          JsonBody(JNull), JsonBody(JArr(<< >>))}
Statuses == {200, 401, 404, 429, 500}
Responses ==
    {[status |-> HTTPStatusOK, body |-> b] : b \in Bodies} \cup
    {[status |-> st, body |-> b] :
        st \in Statuses \ {HTTPStatusOK},
        b \in {TextBody(NoStr), TextBody(<<"<html>", "authentication", "needed">>),
               JsonBody(JObj(JNum(200), JStr(<<"Hola">>), JAbsent)),
               JsonBody(JObj(JNum(503), JStr(<<"busy">>), JAbsent))}}

\* ------------------------------------------------------------------- state
VARIABLES
    cfgFile,    \* the config file on disk
    saveRes,    \* what saveConfig returned in this invocation: "none" while
                \* it was not called, "ok" for nil, "failed" for an error
    pc,         \* where the process is blocked: "idle", "probe", "post",
                \* a prompt of setup, or "done" after exit
    cmd,        \* the command of the current invocation
    inv,        \* its flags, positional arguments and environment
    call,       \* the frame of the translate / checkServerConnection call in progress
    loc,        \* the locals of the setup Action
    sent,       \* the HTTP requests issued by this invocation, in order
    out,        \* standard output, a sequence of lines
    errOut,     \* standard error, a sequence of lines
    exitCode,   \* the exit code, -1 while the process runs
    ret,        \* what the last translate call of this invocation returned
    memo        \* a finished run kept to compare a later run with; never
                \* read by the program

vars == <<cfgFile, saveRes, pc, cmd, inv, call, loc, sent, out, errOut, exitCode, ret,
          memo>>

NoBody  == [text |-> NoStr, source_lang |-> NoStr, target_lang |-> NoStr]
NoCall  == [site |-> "none", inTranslate |-> FALSE, url |-> NoStr, text |-> NoStr,
            src |-> NoStr, tgt |-> NoStr, token |-> NoStr, timeout |-> 0,
            debug |-> FALSE, probe |-> 0]
NoLoc   == [token |-> NoStr, serverURL |-> NoStr]
NoRet   == [called |-> FALSE, ok |-> FALSE, resp |-> ZeroResponse, err |-> NoStr,
            status |-> 0, body |-> TextBody(NoStr), got |-> "none", kind |-> "none",
            anyFailed |-> FALSE]
NoMemo  == [kept |-> FALSE]

Init ==
    /\ cfgFile = FileMissing
    /\ saveRes = "none"
    /\ pc = "idle"
    /\ cmd = "none"
    /\ inv = BaseInv
    /\ call = NoCall
    /\ loc = NoLoc
    /\ sent = << >>
    /\ out = << >>
    /\ errOut = << >>
    /\ exitCode = -1
    /\ ret = NoRet
    /\ memo = NoMemo

\* ---------------------------------------------------------------- requests
GetRequest(url) ==
    [method |-> "GET", url |-> url, headers |-> {}, body |-> NoBody]

\* a mutant of PostRequest: the Authorization header is always set
PostRequestAlwaysAuth(c) ==
    [method |-> "POST", url |-> c.url \o <<"/translate">>,
     headers |-> {<<"Content-Type", <<"application/json">> >>,
                  <<"User-Agent", <<"translate/0.1.0">> >>,
                  <<"Authorization", <<"Bearer">> \o c.token>>},
     body |-> [text |-> c.text, source_lang |-> c.src, target_lang |-> c.tgt]]

\* the request translate builds (main.go:438-473)
PostRequest(c) ==
    [method |-> "POST", url |-> c.url \o <<"/translate">>,
     headers |-> {<<"Content-Type", <<"application/json">> >>,
                  <<"User-Agent", <<"translate/0.1.0">> >>}
                 \cup (IF c.token # NoStr
                       THEN {<<"Authorization", <<"Bearer">> \o c.token>>}
                       ELSE {}),
     body |-> [text |-> c.text, source_lang |-> c.src, target_lang |-> c.tgt]]

\* a mutant of PostDebug: the debug trace shows the token
PostDebugShowsToken(c) ==
    IF c.debug
    THEN << <<"Debug: Request body:">> \o c.text \o <<"|">> \o c.src \o <<"|">> \o c.tgt,
            IF c.token # NoStr THEN <<"Debug: Using token authentication">> \o c.token
                               ELSE <<"Debug: No token provided">> >>
    ELSE << >>

\* the debug lines translate writes before sending (main.go:451-473)
PostDebug(c) ==
    IF c.debug
    THEN << <<"Debug: Request body:">> \o c.text \o <<"|">> \o c.src \o <<"|">> \o c.tgt,
            IF c.token # NoStr THEN <<"Debug: Using token authentication">>
                               ELSE <<"Debug: No token provided">> >>
    ELSE << >>

\* the process exits: nothing is left of the frames
Exit(code, o, e, s, r) ==
    /\ pc' = "done"
    /\ exitCode' = code
    /\ out' = o
    /\ errOut' = e
    /\ sent' = s
    /\ ret' = r
    /\ call' = NoCall
    /\ loc' = NoLoc

\* a mutant of EnterTranslate: the http.Client is built without a Timeout
EnterTranslateNoTimeout(site, url, text, src, tgt, token, timeout, debug, o, e, s, r) ==
    /\ pc' = "probe"
    /\ call' = [site |-> site, inTranslate |-> TRUE, url |-> url, text |-> text,
                src |-> src, tgt |-> tgt, token |-> token, timeout |-> 0,
                debug |-> debug, probe |-> 0]
    /\ sent' = Append(s, GetRequest(url))
    /\ out' = o
    /\ errOut' = e
    /\ exitCode' = -1
    /\ ret' = r

\* translate is entered: its first step is checkServerConnection, which
\* issues the GET (main.go:432-436, 544-550)
EnterTranslate(site, url, text, src, tgt, token, timeout, debug, o, e, s, r) ==
    /\ pc' = "probe"
    /\ call' = [site |-> site, inTranslate |-> TRUE, url |-> url, text |-> text,
                src |-> src, tgt |-> tgt, token |-> token, timeout |-> timeout,
                debug |-> debug, probe |-> 0]
    /\ sent' = Append(s, GetRequest(url))
    /\ out' = o
    /\ errOut' = e
    /\ exitCode' = -1
    /\ ret' = r

\* checkServerConnection is called on its own by setup and doctor
EnterCheck(site, url, timeout, o, e, s, r) ==
    /\ pc' = "probe"
    /\ call' = [NoCall EXCEPT !.site = site, !.url = url, !.timeout = timeout]
    /\ sent' = Append(s, GetRequest(url))
    /\ out' = o
    /\ errOut' = e
    /\ exitCode' = -1
    /\ ret' = r

\* ------------------------------------------------------------- config save
\* a mutant of SavedFile: the token is left out of the file
SavedFileNoToken(config) ==
    FileJson(IF config.DefaultURL # NoStr THEN JStr(config.DefaultURL) ELSE JAbsent,
             JAbsent)

\* the file json.MarshalIndent writes for a Config; both fields are omitempty
SavedFile(config) ==
    FileJson(IF config.DefaultURL # NoStr THEN JStr(config.DefaultURL) ELSE JAbsent,
             IF config.DefaultToken # NoStr THEN JStr(config.DefaultToken) ELSE JAbsent)

\* the text of the error a failed saveConfig returns
SaveErrText == "open config.json: permission denied"

\* what a failed saveConfig may leave on disk (main.go:590-609): nothing is
\* touched when the directory cannot be made or the file cannot be opened;
\* os.WriteFile truncates the file before the write that fails
FailedSaveFiles(file) == {file, FileGarbage}

\* ------------------------------------------------------- the setup wizard
MenuLines ==
    << <<"No local DeepLX server found.">>, <<"Would you like to:">>,
       <<"1. Start DeepLX with Docker (recommended)">>,
       <<"2. Use a remote DeepLX server">>,
       <<"3. Exit and set up manually">>, <<"Choice (1-3):">> >>
SavedLines ==
    << <<"Configuration saved!">>, <<"You're all set! Try:">>,
       <<"translate \"Hello world\"">> >>

\* main.go:198-207: the menu is printed and the choice is read
SetupMenu(o, e, s, r) ==
    /\ pc' = "ask_choice"
    /\ out' = o \o MenuLines
    /\ errOut' = e
    /\ sent' = s
    /\ ret' = r
    /\ call' = NoCall
    /\ exitCode' = -1
    /\ UNCHANGED <<cfgFile, saveRes, loc>>

\* main.go:167-177 and 184-192: the config is saved; when the save fails the
\* error is dropped and the code falls through to the menu
SetupSaveLocal(config, o, e, s, r) ==
    \/ /\ cfgFile' = SavedFile(config)
       /\ saveRes' = "ok"
       /\ Exit(0, o \o SavedLines, e, s, r)
    \/ /\ cfgFile' \in FailedSaveFiles(cfgFile)
       /\ saveRes' = "failed"
       /\ pc' = "ask_choice"
       /\ out' = o \o MenuLines
       /\ errOut' = e
       /\ sent' = s
       /\ ret' = r
       /\ call' = NoCall
       /\ exitCode' = -1
       /\ UNCHANGED loc

\* main.go:156-193: the return of the test translation without a token
SetupTestReturn(r, o, e, s) ==
    IF ~r.ok /\ Contains(r.err, <<"authentication">>)
    THEN /\ pc' = "ask_token"
         /\ out' = o \o << <<"Server requires authentication">>,
                           <<"Enter your token (or press Enter to skip):">> >>
         /\ errOut' = e
         /\ sent' = s
         /\ ret' = r
         /\ call' = NoCall
         /\ exitCode' = -1
         /\ UNCHANGED <<cfgFile, saveRes, loc>>
    ELSE IF r.ok
    THEN SetupSaveLocal([DefaultURL |-> HardURL, DefaultToken |-> NoStr], o, e, s, r)
    ELSE SetupMenu(o, e, s, r)

\* a mutant of SetupTokenReturn: the typed token is saved without looking at
\* the result of the test translation
SetupTokenReturnUnverified(r, o, e, s) ==
    SetupSaveLocal([DefaultURL |-> HardURL, DefaultToken |-> loc.token], o, e, s, r)

\* main.go:165-181: the return of the test translation with the typed token
SetupTokenReturn(r, o, e, s) ==
    IF r.ok
    THEN SetupSaveLocal([DefaultURL |-> HardURL, DefaultToken |-> loc.token], o, e, s, r)
    ELSE SetupMenu(o \o << <<"Token verification failed:">> \o r.err >>, e, s, r)

\* main.go:243-264: the return of the test translation against a remote server
SetupRemoteReturn(r, o, e, s) ==
    IF ~r.ok
    THEN /\ Exit(0, o \o << <<"Failed">>, <<"Error:">> \o r.err >>, e, s, r)
         /\ UNCHANGED <<cfgFile, saveRes>>
    ELSE LET o1 == o \o << <<"Success! Got:">> \o r.resp.Data >>
             config == [DefaultURL |-> loc.serverURL, DefaultToken |-> loc.token]
         IN  \/ /\ cfgFile' = SavedFile(config)
                /\ saveRes' = "ok"
                /\ Exit(0, o1 \o SavedLines, e, s, r)
             \/ /\ cfgFile' \in FailedSaveFiles(cfgFile)
                /\ saveRes' = "failed"
                /\ Exit(0, o1 \o << <<"Failed to save config:", SaveErrText>> >>, e, s, r)

\* main.go:341-355: the return of doctor's test translation
DoctorReturn(r, o, e, s) ==
    /\ UNCHANGED <<cfgFile, saveRes>>
    /\ IF ~r.ok
       THEN Exit(0,
                 o \o << <<"Failed">>, <<"Error:">> \o r.err >> \o
                   (IF Contains(r.err, <<"authentication">>)
                    THEN << <<"Tip: This server requires authentication.">>,
                            <<"Set a token with: translate config set --token <your-token>">> >>
                    ELSE << >>),
                 e, s, r)
       ELSE Exit(0,
                 o \o << <<"OK (got:">> \o r.resp.Data \o <<")">>,
                         <<"Method:">> \o r.resp.Method,
                         <<"Source:">> \o r.resp.SourceLang >>,
                 e, s, r)

\* ------------------------------------------------- the main translate command
\* a mutant of AltLines: the numbering starts at 0
RECURSIVE AltLinesFromZero(_, _)
AltLinesFromZero(alts, i) ==
    IF i > Len(alts) THEN << >>
    ELSE << <<Itoa(i - 1), ".">> \o alts[i] >> \o AltLinesFromZero(alts, i + 1)

\* main.go:409-411: one numbered line for each alternative
RECURSIVE AltLines(_, _)
AltLines(alts, i) ==
    IF i > Len(alts) THEN << >>
    ELSE << <<Itoa(i), ".">> \o alts[i] >> \o AltLines(alts, i + 1)

\* a mutant of MainReturn: the server that worked is remembered in the config
MainReturnSavesConfig(r, o, e, s) ==
    IF ~r.ok
    THEN /\ UNCHANGED <<cfgFile, saveRes>>
         /\ Exit(1, o, e \o << <<"Translation error:">> \o r.err >>, s, r)
    ELSE /\ cfgFile' = SavedFile([DefaultURL |-> call.url, DefaultToken |-> call.token])
         /\ saveRes' = "ok"
         /\ Exit(0, o \o <<r.resp.Data>>, e, s, r)

\* a mutant of MainReturn: a failed translation is attempted once more
MainReturnRetry(r, o, e, s) ==
    /\ UNCHANGED <<cfgFile, saveRes>>
    /\ IF ~r.ok /\ Len(s) <= 2
       THEN /\ EnterTranslate("main", call.url, call.text, call.src, call.tgt,
                              call.token, call.timeout, call.debug, o, e, s, r)
            /\ UNCHANGED loc
       ELSE IF ~r.ok
       THEN Exit(1, o, e \o << <<"Translation error:">> \o r.err >>, s, r)
       ELSE Exit(0, o \o <<r.resp.Data>>, e, s, r)

\* a mutant of MainReturn: a failed translation still exits with code 0
MainReturnExitZero(r, o, e, s) ==
    /\ UNCHANGED <<cfgFile, saveRes>>
    /\ IF ~r.ok
       THEN Exit(0, o, e \o << <<"Translation error:">> \o r.err >>, s, r)
       ELSE Exit(0, o \o <<r.resp.Data>>, e, s, r)

\* a mutant of MainReturn: the result is printed on standard error
MainReturnOnStderr(r, o, e, s) ==
    /\ UNCHANGED <<cfgFile, saveRes>>
    /\ IF ~r.ok
       THEN Exit(1, o, e \o << <<"Translation error:">> \o r.err >>, s, r)
       ELSE Exit(0, o, e \o <<r.resp.Data>>, s, r)

\* main.go:392-420: what the root Action does with the result of translate
MainReturn(r, o, e, s) ==
    /\ UNCHANGED <<cfgFile, saveRes>>
    /\ IF ~r.ok
       THEN IF Contains(r.err, <<CannotConnect>>)
            THEN Exit(1, o, e \o <<r.err, <<"First time? Run: translate setup">> >>, s, r)
            ELSE Exit(1, o, e \o << <<"Translation error:">> \o r.err >>, s, r)
       ELSE Exit(0,
                 o \o <<r.resp.Data>> \o
                   (IF inv.alternatives /\ Len(r.resp.Alternatives) > 0
                    THEN << <<"Alternatives:">> >> \o AltLines(r.resp.Alternatives, 1)
                    ELSE << >>),
                 e \o (IF inv.debug
                       THEN << <<"Debug: Method=">> \o r.resp.Method \o <<", SourceLang=">>
                               \o r.resp.SourceLang \o <<", ID=", Itoa(r.resp.ID)>> >>
                       ELSE << >>),
                 s, r)

\* translate returns to the call site it was entered from
TranslateReturns(r, o, e, s) ==
    \/ call.site = "main" /\ MainReturn(r, o, e, s)
    \/ call.site = "setup_test" /\ SetupTestReturn(r, o, e, s)
    \/ call.site = "setup_token" /\ SetupTokenReturn(r, o, e, s)
    \/ call.site = "setup_remote" /\ SetupRemoteReturn(r, o, e, s)
    \/ call.site = "doctor" /\ DoctorReturn(r, o, e, s)

\* the record of a return of translate: its two results, what the network did
\* to produce them (the response received, or the kind of failure), and
\* whether any translate call of this invocation has failed so far
MakeRet(h, got, kind, status, body) ==
    [called |-> TRUE, ok |-> h.ok, resp |-> h.resp, err |-> h.err,
     status |-> status, body |-> body, got |-> got, kind |-> kind,
     anyFailed |-> ret.anyFailed \/ ~h.ok]
Failure(err) == [ok |-> FALSE, resp |-> ZeroResponse, err |-> err]

\* ----------------------------------------------------------------- actions
Idle == pc = "idle"

\* the exited process is gone; only the config file is left of it
ProcessGone ==
    /\ pc = "done"
    /\ pc' = "idle"
    /\ cmd' = "none"
    /\ inv' = BaseInv
    /\ call' = NoCall
    /\ loc' = NoLoc
    /\ sent' = << >>
    /\ out' = << >>
    /\ errOut' = << >>
    /\ exitCode' = -1
    /\ ret' = NoRet
    /\ saveRes' = "none"
    /\ UNCHANGED <<cfgFile, memo>>

HelpLines == << <<"NAME: translate - A simple CLI for translating text using DeepLX">> >>
WelcomeLines ==
    << <<"Welcome to DeepLX CLI!">>,
       <<"It looks like this is your first time using the tool.">>,
       <<"translate setup">>, <<"translate --help">> >>

Lang(flag, default) == IF flag.set THEN flag.val ELSE default

\* the root Action up to the call of translate (main.go:361-392)
StartTranslate(i) ==
    /\ Idle
    /\ UNCHANGED memo
    /\ cmd' = "translate"
    /\ inv' = i
    /\ UNCHANGED <<cfgFile, saveRes>>
    /\ IF Len(i.args) = 0
       THEN LET config == loadConfig(cfgFile)
            IN  IF config.DefaultURL = NoStr /\ config.DefaultToken = NoStr
                THEN Exit(0, WelcomeLines, << >>, << >>, NoRet)
                ELSE Exit(0, HelpLines, << >>, << >>, NoRet)
       ELSE LET text       == Join(i.args)
                sourceLang == ToUpper(Lang(i.source, AutoLang))
                targetLang == ToUpper(Lang(i.target, EnLang))
                serverURL  == ResolveURL(i, cfgFile)
                token      == ResolveToken(i, cfgFile)
                e == IF i.debug
                     THEN << <<"Debug: URL=">> \o serverURL \o <<", Source=">> \o sourceLang
                             \o <<", Target=">> \o targetLang
                             \o <<", HasToken=", IF token # NoStr THEN "true" ELSE "false">> >>
                     ELSE << >>
            IN  /\ EnterTranslate("main", serverURL, text, sourceLang, targetLang,
                                  token, i.timeout, i.debug, << >>, e, << >>, NoRet)
                /\ loc' = NoLoc

\* the setup Action up to its first probe (main.go:144-152)
StartSetup ==
    /\ Idle
    /\ UNCHANGED memo
    /\ cmd' = "setup"
    /\ inv' = BaseInv
    /\ loc' = NoLoc
    /\ UNCHANGED <<cfgFile, saveRes>>
    /\ EnterCheck("setup_local", HardURL, 5,
                  << <<"DeepLX CLI Setup">>, <<"Checking for local DeepLX server...">> >>,
                  << >>, << >>, NoRet)

\* the doctor Action up to its probe (main.go:279-326)
StartDoctor(i) ==
    /\ Idle
    /\ UNCHANGED memo
    /\ cmd' = "doctor"
    /\ inv' = i
    /\ loc' = NoLoc
    /\ UNCHANGED <<cfgFile, saveRes>>
    /\ LET config == loadConfig(cfgFile)
           flagURL == ResolveURL(i, cfgFile)
           serverURL == IF flagURL # NoStr THEN flagURL
                        ELSE IF config.DefaultURL # NoStr THEN config.DefaultURL
                        ELSE HardURL
           o == << <<"DeepLX CLI Diagnostic">>, <<"Configuration:">>,
                   IF config.DefaultURL # NoStr
                   THEN <<"Default URL:">> \o config.DefaultURL
                   ELSE <<"Default URL: not set (using http://localhost:1188)">>,
                   IF config.DefaultToken # NoStr
                   THEN <<"Default Token: configured">>
                   ELSE <<"Default Token: not set">>,
                   <<"Environment:">>,
                   IF i.envTOKEN.val # NoStr THEN <<"TOKEN: set">>
                   ELSE IF i.envDEEPLX.val # NoStr THEN <<"DEEPLX_TOKEN: set">>
                   ELSE <<"No token in environment">> >>
                \o (IF i.envURL.val # NoStr
                    THEN << <<"DEEPLX_URL:">> \o i.envURL.val >> ELSE << >>)
                \o << <<"Testing connection to">> \o serverURL,
                      <<"Checking connectivity...">> >>
       IN  EnterCheck("doctor_check", serverURL, 5, o, << >>, << >>, NoRet)

\* checkServerConnection returns nil in translate: the POST is built and sent
\* (main.go:438-481)
\* a mutant of SendPost: the POST is issued twice
SendPostTwice(o, e, s, r) ==
    /\ pc' = "post"
    /\ sent' = s \o <<PostRequest(call), PostRequest(call)>>
    /\ errOut' = e \o PostDebug(call)
    /\ out' = o
    /\ ret' = r
    /\ exitCode' = -1
    /\ UNCHANGED <<loc, cfgFile, saveRes>>

SendPost(o, e, s, r) ==
    /\ pc' = "post"
    /\ sent' = Append(s, PostRequest(call))
    /\ errOut' = e \o PostDebug(call)
    /\ out' = o
    /\ ret' = r
    /\ exitCode' = -1
    /\ UNCHANGED <<loc, cfgFile, saveRes>>

\* checkServerConnection returns to a caller other than translate
CheckReturns(err) ==
    \/ /\ call.site = "setup_local"
       /\ IF err = NoStr
          THEN /\ EnterTranslate("setup_test", HardURL, <<"test">>, <<"A", "U", "T", "O">>,
                                 <<"E", "N">>, NoStr, 5, FALSE,
                                 out \o << <<"Found!">> >>, errOut, sent, ret)
               /\ UNCHANGED <<cfgFile, saveRes, loc>>
          ELSE SetupMenu(out \o << <<"Not found">> >>, errOut, sent, ret)
    \/ /\ call.site = "setup_remote_check"
       /\ UNCHANGED <<cfgFile, saveRes>>
       /\ IF err = NoStr
          THEN /\ pc' = "ask_auth"
               /\ out' = out \o << <<"Connected">>,
                                   <<"Does this server require authentication? (y/N):">> >>
               /\ call' = NoCall
               /\ UNCHANGED <<errOut, sent, ret, exitCode, loc>>
          ELSE Exit(0, out \o << <<"Failed">>, <<"Error:">> \o err >>, errOut, sent, ret)
    \/ /\ call.site = "doctor_check"
       /\ UNCHANGED <<cfgFile, saveRes>>
       /\ IF err = NoStr
          THEN LET flagToken == ResolveToken(inv, cfgFile)
                   token == IF flagToken # NoStr THEN flagToken
                            ELSE loadConfig(cfgFile).DefaultToken
               IN  /\ EnterTranslate("doctor", call.url, <<"Hello">>, <<"A", "U", "T", "O">>,
                                     <<"E", "N">>, token, 5, FALSE,
                                     out \o << <<"OK">>, <<"Testing translation...">> >>,
                                     errOut, sent, ret)
                   /\ UNCHANGED loc
          ELSE Exit(0, out \o << <<"Failed">>, <<"Error:">> \o err >>, errOut, sent, ret)

\* a mutant of ProbeResponds: a response with an error status counts as a
\* failed probe
ProbeRespondsChecked(status) ==
    /\ pc = "probe"
    /\ UNCHANGED <<cmd, inv, memo>>
    /\ LET err == <<"server not reachable at">> \o call.url \o <<": status", Itoa(status)>>
       IN  IF status >= 400
           THEN IF call.inTranslate
                THEN TranslateReturns(MakeRet(Failure(err), "probeerr", "none", status,
                                              TextBody(NoStr)),
                                      out, errOut, sent)
                ELSE CheckReturns(err)
           ELSE IF call.inTranslate
           THEN /\ call' = [call EXCEPT !.probe = status]
                /\ SendPost(out, errOut, sent, ret)
           ELSE CheckReturns(NoStr)

\* the GET of checkServerConnection obtains an HTTP response: the status is
\* not looked at and nil is returned (main.go:550-567); call.probe keeps the
\* status of the response for as long as the call lasts
ProbeResponds(status) ==
    /\ pc = "probe"
    /\ UNCHANGED <<cmd, inv, memo>>
    /\ IF call.inTranslate
       THEN /\ call' = [call EXCEPT !.probe = status]
            /\ SendPost(out, errOut, sent, ret)
       ELSE CheckReturns(NoStr)

\* a mutant of ProbeFailed: translate goes on to the POST after a failed probe
ProbeFailedIgnored(kind) ==
    LET err == ProbeError(call.url, kind)
    IN  IF call.inTranslate
        THEN /\ call' = call
             /\ SendPost(out, errOut, sent, ret)
        ELSE CheckReturns(err)

\* the outcome of a probe that obtained no response
ProbeFailed(kind) ==
    LET err == ProbeError(call.url, kind)
    IN  IF call.inTranslate
        THEN TranslateReturns(MakeRet(Failure(err), "probeerr", kind, 0, TextBody(NoStr)),
                              out, errOut, sent)
        ELSE CheckReturns(err)

\* the GET fails before the deadline: refused, unresolvable, dial timed out, reset
ProbeFails(kind) ==
    /\ pc = "probe"
    /\ kind \in NetErrKinds \ {"deadline"}
    /\ UNCHANGED <<cmd, inv, memo>>
    /\ ProbeFailed(kind)

\* http.Client.Timeout expires during the GET; a Timeout of zero or less
\* sets no deadline
ProbeDeadline ==
    /\ pc = "probe"
    /\ call.timeout > 0
    /\ UNCHANGED <<cmd, inv, memo>>
    /\ \E kind \in {"deadline", "dialtimeout"} : ProbeFailed(kind)

\* the Authorization header translate set cannot be sent
HeaderRejected(c) == c.token # NoStr /\ ~ValidHeaderValue(<<"Bearer">> \o c.token)

\* client.Do refuses the request for its header and nothing reaches the
\* server (main.go:481-501)
PostRejected ==
    /\ pc = "post"
    /\ HeaderRejected(call)
    /\ UNCHANGED <<cmd, inv, memo>>
    /\ TranslateReturns(MakeRet(Failure(PostError(call.url, "badheader")), "senderr",
                                "badheader", 0, TextBody(NoStr)),
                        out, errOut, sent)

\* the POST is answered and its body is read (main.go:502-540)
PostResponds(resp) ==
    /\ pc = "post"
    /\ ~HeaderRejected(call)
    /\ UNCHANGED <<cmd, inv, memo>>
    /\ LET e == errOut \o
                (IF call.debug
                 THEN << <<"Debug: Response status:", Itoa(resp.status)>>,
                         <<"Debug: Response body:">> \o RawBody(resp.body) >>
                 ELSE << >>)
           h == HandleResponse(call.url, resp.status, resp.body)
       IN  TranslateReturns(MakeRet(h, "response", "none", resp.status, resp.body), out, e, sent)

\* the POST is answered but reading the body fails (main.go:505-508)
PostReadFails(status) ==
    /\ pc = "post"
    /\ ~HeaderRejected(call)
    /\ UNCHANGED <<cmd, inv, memo>>
    /\ TranslateReturns(MakeRet(Failure(<<"failed to read response:", "unexpected EOF">>),
                                "readerr", "none", status, TextBody(NoStr)),
                        out, errOut, sent)

\* the POST obtains no response (main.go:481-501)
PostFails(kind) ==
    /\ pc = "post"
    /\ ~HeaderRejected(call)
    /\ kind \in NetErrKinds \ {"deadline"}
    /\ UNCHANGED <<cmd, inv, memo>>
    /\ TranslateReturns(MakeRet(Failure(PostError(call.url, kind)), "neterr", kind, 0,
                                TextBody(NoStr)),
                        out, errOut, sent)

\* http.Client.Timeout expires during the POST
PostDeadline ==
    /\ pc = "post"
    /\ ~HeaderRejected(call)
    /\ call.timeout > 0
    /\ UNCHANGED <<cmd, inv, memo>>
    /\ \E kind \in {"deadline", "dialtimeout"} :
          TranslateReturns(MakeRet(Failure(PostError(call.url, kind)), "neterr", kind, 0,
                                   TextBody(NoStr)),
                           out, errOut, sent)

\* ------------------------------------------------------- prompts of setup
\* main.go:159-165: the token typed for the local server
AnswerToken(t) ==
    /\ pc = "ask_token"
    /\ UNCHANGED <<cmd, inv, memo>>
    /\ IF t # NoStr
       THEN /\ loc' = [loc EXCEPT !.token = t]
            /\ EnterTranslate("setup_token", HardURL, <<"test">>, <<"A", "U", "T", "O">>,
                              <<"E", "N">>, t, 5, FALSE, out, errOut, sent, ret)
            /\ UNCHANGED <<cfgFile, saveRes>>
       ELSE SetupMenu(out, errOut, sent, ret)

\* main.go:206-222 and 266-273: the choice of the menu
AnswerChoice(c) ==
    /\ pc = "ask_choice"
    /\ UNCHANGED <<cmd, inv, cfgFile, saveRes, memo>>
    /\ CASE c = "1" -> Exit(0, out \o << <<"To start DeepLX with Docker, run:">>, <<DockerRun>>,
                                         <<"Then run 'translate setup' again.">> >>,
                            errOut, sent, ret)
         [] c = "2" -> /\ pc' = "ask_url"
                       /\ out' = out \o << <<"Enter the DeepLX server URL:">> >>
                       /\ UNCHANGED <<call, loc, sent, errOut, exitCode, ret>>
         [] c = "3" -> Exit(0, out \o << <<"To set up manually:">>,
                                         <<"1. Start a DeepLX server">>,
                                         <<"2. Configure with: translate config set --url <server-url>">>,
                                         <<"3. If needed, add: --token <your-token>">> >>,
                            errOut, sent, ret)
         [] OTHER   -> Exit(0, out, errOut, sent, ret)

\* main.go:216-223: the URL of the remote server
AnswerURL(u) ==
    /\ pc = "ask_url"
    /\ UNCHANGED <<cmd, inv, cfgFile, saveRes, memo>>
    /\ IF u # NoStr
       THEN /\ loc' = [loc EXCEPT !.serverURL = u]
            /\ EnterCheck("setup_remote_check", u, 10,
                          out \o << <<"Testing connection...">> >>, errOut, sent, ret)
       ELSE Exit(0, out, errOut, sent, ret)

\* main.go:231-243: whether the remote server needs a token; the token of
\* this branch is a variable of its own (235), empty unless one is typed
AnswerAuth(a) ==
    /\ pc = "ask_auth"
    /\ UNCHANGED <<cmd, inv, cfgFile, saveRes, memo>>
    /\ IF ToLower(a) = <<"y">>
       THEN /\ pc' = "ask_token2"
            /\ out' = out \o << <<"Enter your token:">> >>
            /\ UNCHANGED <<call, loc, sent, errOut, exitCode, ret>>
       ELSE /\ EnterTranslate("setup_remote", loc.serverURL, <<"Hello">>,
                              <<"A", "U", "T", "O">>, <<"E", "N">>, NoStr, 10, FALSE,
                              out \o << <<"Testing translation...">> >>, errOut, sent, ret)
            /\ loc' = [loc EXCEPT !.token = NoStr]

\* main.go:237-243: the token of the remote server
AnswerToken2(t) ==
    /\ pc = "ask_token2"
    /\ UNCHANGED <<cmd, inv, cfgFile, saveRes, memo>>
    /\ loc' = [loc EXCEPT !.token = t]
    /\ EnterTranslate("setup_remote", loc.serverURL, <<"Hello">>,
                      <<"A", "U", "T", "O">>, <<"E", "N">>, t, 10, FALSE,
                      out \o << <<"Testing translation...">> >>, errOut, sent, ret)

\* ------------------------------------------------------ the config commands
\* setConfig (main.go:612-626) and the exit of main on its error (424-428)
ConfigSet(g, u, k) ==
    /\ Idle
    /\ UNCHANGED memo
    /\ cmd' = "config_set"
    /\ inv' = [g EXCEPT !.setURL = u, !.setToken = k]
    /\ LET url   == SetFlag(u, ResolveURL(g, cfgFile))
           token == SetFlag(k, ResolveToken(g, cfgFile))
           c0 == loadConfig(cfgFile)
           c1 == IF url # NoStr THEN [c0 EXCEPT !.DefaultURL = url] ELSE c0
           c2 == IF token # NoStr THEN [c1 EXCEPT !.DefaultToken = token] ELSE c1
           o  == (IF url # NoStr THEN << <<"Set default URL to:">> \o url >> ELSE << >>)
                 \o (IF token # NoStr THEN << <<"Set default token">> >> ELSE << >>)
       IN  \/ /\ cfgFile' = SavedFile(c2)
              /\ saveRes' = "ok"
              /\ Exit(0, o, << >>, << >>, NoRet)
           \/ /\ cfgFile' \in FailedSaveFiles(cfgFile)
              /\ saveRes' = "failed"
              /\ Exit(1, o, << <<"Error:", SaveErrText>> >>, << >>, NoRet)

\* showConfig (main.go:629-641)
ConfigShow ==
    /\ Idle
    /\ UNCHANGED memo
    /\ cmd' = "config_show"
    /\ inv' = BaseInv
    /\ UNCHANGED <<cfgFile, saveRes>>
    /\ LET config == loadConfig(cfgFile)
       IN  Exit(0,
                << <<"Current configuration:">>,
                   <<"Default URL:">> \o config.DefaultURL,
                   IF config.DefaultToken # NoStr
                   THEN <<"Default Token: [configured]">>
                   ELSE <<"Default T0ken: [not set]">> >>,
                << >>, << >>, NoRet)

\* ---------------------------------------------------------- the environment
\* what the user, or another program, may leave at the config path between
\* two invocations: no file, a file that cannot be read, bytes that are not
\* JSON, or a JSON object with a field of the wrong type
EditedFiles ==
    {FileMissing, FileUnreadable, FileGarbage,
     FileJson(JStr(CfgURL), JBad), FileJson(JBad, JStr(CfgTok))}

UserEditsConfig(f) ==
    /\ Idle
    /\ f \in EditedFiles
    /\ cfgFile' = f
    /\ UNCHANGED <<saveRes, pc, cmd, inv, call, loc, sent, out, errOut, exitCode, ret,
                   memo>>

\* ------------------------------------------------------- the specification
\* the global flags and the environment config set may be run with
ConfigSetInvs ==
    {BaseInv,
     [BaseInv EXCEPT !.url = Set(FlagURL), !.token = Set(FlagTok)],
     [BaseInv EXCEPT !.envURL = Set(EnvURL), !.envTOKEN = Set(EnvTok)]}

DoctorInvs ==
    {[BaseInv EXCEPT !.url = u, !.token = k, !.envTOKEN = e1] :
        u \in {Unset, Set(FlagURL), Set(NoStr)},
        k \in {Unset, Set(FlagTok)}, e1 \in {Unset, Set(EnvTok)}}

Next ==
    \/ \E i \in MainInvs : StartTranslate(i)
    \/ StartSetup
    \/ \E i \in DoctorInvs : StartDoctor(i)
    \/ \E g \in ConfigSetInvs,
          u \in {Unset, Set(CfgURL), Set(NoStr)}, k \in {Unset, Set(CfgTok), Set(NoStr)} :
          ConfigSet(g, u, k)
    \/ ConfigShow
    \/ \E st \in Statuses : ProbeResponds(st)
    \/ \E kind \in NetErrKinds : ProbeFails(kind)
    \/ ProbeDeadline
    \/ \E resp \in Responses : PostResponds(resp)
    \/ \E st \in Statuses : PostReadFails(st)
    \/ \E kind \in NetErrKinds : PostFails(kind)
    \/ PostDeadline
    \/ PostRejected
    \/ \E t \in {NoStr, TypedTok} : AnswerToken(t)
    \/ \E c \in {"1", "2", "3", ""} : AnswerChoice(c)
    \/ \E u \in {NoStr, RemoteURL} : AnswerURL(u)
    \/ \E a \in {<<"y">>, <<"Y">>, <<"n">>, NoStr} : AnswerAuth(a)
    \/ \E t \in {NoStr, TypedTok} : AnswerToken2(t)
    \/ ProcessGone
    \/ \E f \in EditedFiles : UserEditsConfig(f)

Spec == Init /\ [][Next]_vars

\* the timers of the Go runtime fire: a call with a deadline does not outlive it
FairSpec ==
    Spec /\ WF_vars(ProbeDeadline) /\ WF_vars(PostDeadline) /\ WF_vars(PostRejected)

\* ------------------------------------------------- two runs side by side
\* To compare two runs of a command, one finished run is kept in memo and
\* the runs after it are set against it.  The runs are drawn so that they
\* differ in the value of the token only: a token of the command line, of the
\* environment or of the config file, among them one that cannot be sent.
\* Runs of setup, whose tokens are typed, are not kept nor set against a kept
\* run: they are among the runs made while no run is kept.
TwinToks == {FlagTok, OtherTok, BadTok}
TwinInvs ==
    {[BaseInv EXCEPT !.token = Set(t), !.debug = d] : t \in TwinToks, d \in BOOLEAN}
    \cup {[BaseInv EXCEPT !.envTOKEN = Set(t)] : t \in TwinToks}
    \cup {[BaseInv EXCEPT !.debug = d] : d \in BOOLEAN}
TwinDoctorInvs ==
    {[BaseInv EXCEPT !.token = Set(t)] : t \in TwinToks}
    \cup {[BaseInv EXCEPT !.envTOKEN = Set(t)] : t \in TwinToks}
    \cup {BaseInv}
TwinResponses ==
    {[status |-> HTTPStatusOK, body |-> JsonBody(JObj(JNum(200), JStr(<<"Hola">>), JAbsent))],
     [status |-> HTTPStatusOK, body |-> JsonBody(JObj(JNum(503), JStr(<<"busy">>), JAbsent))],
     [status |-> HTTPStatusUnauthorized, body |-> TextBody(NoStr)]}
TwinCmds == {"translate", "doctor", "config_set", "config_show"}

\* the finished run is kept: what it was given, what the server answered, and
\* what it printed and sent
Remember ==
    /\ pc = "done"
    /\ ~memo.kept
    /\ cmd \in TwinCmds
    /\ memo' = [kept |-> TRUE, cmd |-> cmd, inv |-> inv, file |-> cfgFile,
                saveRes |-> saveRes, ret |-> ret, out |-> out, errOut |-> errOut,
                sent |-> sent]
    /\ UNCHANGED <<cfgFile, saveRes, pc, cmd, inv, call, loc, sent, out, errOut,
                   exitCode, ret>>

TwinNext ==
    \/ \E i \in TwinInvs : StartTranslate(i)
    \/ \E i \in TwinDoctorInvs : StartDoctor(i)
    \/ \E t \in TwinToks : ConfigSet(BaseInv, Unset, Set(t))
    \/ ConfigShow
    \/ ProbeResponds(HTTPStatusOK)
    \/ ProbeFails("refused")
    \/ \E resp \in TwinResponses : PostResponds(resp)
    \/ PostFails("refused")
    \/ PostRejected
    \/ ~memo.kept /\ StartSetup
    \/ \E t \in {NoStr, TypedTok} : AnswerToken(t)
    \/ \E c \in {"2", "3"} : AnswerChoice(c)
    \/ AnswerURL(RemoteURL)
    \/ \E a \in {<<"y">>, <<"n">>} : AnswerAuth(a)
    \/ AnswerToken2(TypedTok)
    \/ Remember
    \/ ProcessGone

TwinSpec == Init /\ [][TwinNext]_vars

\* ------------------------------------------------------------- properties
\* the main translate command has exited after translate returned
MainDone == pc = "done" /\ cmd = "translate" /\ ret.called
\* ... and the POST of that call was answered with a status and a body
MainAnswered == MainDone /\ ret.got = "response"

\* a body is of the response shape when it is JSON null or a JSON object
\* whose fields, where present, have the types of TranslationResponse
WellShaped(body) ==
    /\ body.kind = "json"
    /\ \/ body.v.t = "null"
       \/ /\ body.v.t = "obj"
          /\ body.v.code.t \in {"absent", "null", "num"}
          /\ body.v.data.t \in {"absent", "null", "str"}
          /\ body.v.alternatives.t \in {"absent", "null", "arr"}
PayloadCode(body) ==
    IF body.v.t = "obj" /\ body.v.code.t = "num" THEN body.v.code.n ELSE 0
PayloadData(body) ==
    IF body.v.t = "obj" /\ body.v.data.t = "str" THEN body.v.data.s ELSE NoStr

OnStderr(text) == \E i \in 1..Len(errOut) : Contains(errOut[i], text)
AuthFailed == <<"authentication", "failed - check your token">>

\* C1: a POST answered with status 200 and a response-shaped JSON body whose
\* code is 200 makes translate return the parsed response and no error, and
\* the main translate command prints its data on standard output and exits 0.
C1_SuccessPrintsData ==
    (MainAnswered /\ ret.status = 200 /\ WellShaped(ret.body)
       /\ PayloadCode(ret.body) = 200)
    => /\ ret.ok /\ ret.err = NoStr
       /\ ret.resp.Code = 200
       /\ ret.resp.Data = PayloadData(ret.body)
       /\ Len(out) >= 1 /\ out[1] = PayloadData(ret.body)
       /\ exitCode = 0
C1_Witness ==
    /\ MainAnswered /\ ret.status = 200
    /\ ret.body = JsonBody(JObj(JNum(200), JStr(<<"Hola">>), JAbsent))
    /\ out = << <<"Hola">> >> /\ exitCode = 0

\* C2: a POST answered with status 401 makes translate return the
\* 'authentication failed' error and no response, whatever the body, and the
\* main translate command reports that error and exits 1.
C2_Unauthorized ==
    (MainAnswered /\ ret.status = 401)
    => /\ ~ret.ok /\ ret.err = AuthFailed
       /\ OnStderr(AuthFailed)
       /\ out = << >>
       /\ exitCode = 1
C2_Witness ==
    /\ MainAnswered /\ ret.status = 401
    /\ ret.body = JsonBody(JObj(JNum(200), JStr(<<"Hola">>), JAbsent))
    /\ exitCode = 1

\* the kind of error a caller reads off the first words of the error text
ErrKind(err) ==
    CASE Head(err) = "authentication" -> "401"
      [] Head(err) = "rate limit exceeded - please wait and try again" -> "429"
      [] Head(err) = "server endpoint not found - check your URL:" -> "404"
      [] Head(err) = "server returned status" -> "other"
      [] OTHER -> "none"
StatusKind(status) ==
    CASE status = 401 -> "401" [] status = 429 -> "429" [] status = 404 -> "404"
      [] OTHER -> "other"

\* C3: for a POST answered with a status other than 200 translate returns no
\* response and an error of the kind of that status: 429 rate limit, 404
\* endpoint not found naming the server URL, any other status but 401 the
\* numeric status and the raw body; the kind can be read off the error.
C3_StatusErrors ==
    (MainAnswered /\ ret.status # 200)
    => /\ ~ret.ok
       /\ ret.status = 429 => ret.err = <<"rate limit exceeded - please wait and try again">>
       /\ ret.status = 404 =>
            ret.err = <<"server endpoint not found - check your URL:">>
                      \o ResolveURL(inv, cfgFile)
       /\ ret.status \notin {401, 404, 429} =>
            /\ Contains(ret.err, <<Itoa(ret.status)>>)
            /\ Contains(ret.err, RawBody(ret.body))
            /\ RawBody(ret.body) = SubSeq(ret.err, 4, Len(ret.err))
       /\ ErrKind(ret.err) = StatusKind(ret.status)
C3_Witness ==
    /\ MainAnswered /\ ret.status = 500
    /\ ret.body = TextBody(<<"<html>", "authentication", "needed">>)
    /\ ErrKind(ret.err) = "other"

\* C4: a POST answered with status 200 and a response-shaped body whose code
\* is not 200 makes translate return no response and a translation failure
\* holding the payload code and the data, which the main translate command
\* reports before it exits 1.
C4_PayloadFailure ==
    (MainAnswered /\ ret.status = 200 /\ WellShaped(ret.body)
       /\ PayloadCode(ret.body) # 200)
    => /\ ~ret.ok
       /\ ret.err = <<"translation failed with code", Itoa(PayloadCode(ret.body)), ":">>
                    \o PayloadData(ret.body)
       /\ OnStderr(ret.err)
       /\ out = << >>
       /\ exitCode = 1
C4_Witness ==
    /\ MainAnswered /\ ret.status = 200
    /\ ret.body = JsonBody(JObj(JNum(503), JStr(<<"busy">>), JAbsent))
    /\ OnStderr(<<"503", ":", "busy">>) /\ exitCode = 1

\* C5: a POST answered with status 200 and a body that is not JSON of the
\* response shape makes translate return no response and a parse failure; the
\* main translate command prints nothing on standard output and exits 1.
C5_ParseFailure ==
    (MainAnswered /\ ret.status = 200 /\ ~WellShaped(ret.body))
    => /\ ~ret.ok
       /\ Head(ret.err) = "failed to parse response:"
       /\ out = << >>
       /\ exitCode = 1
C5_Witness ==
    /\ MainAnswered /\ ret.status = 200
    /\ ret.body = JsonBody(JObj(JNum(200), JBad, JAbsent))
    /\ ~ret.ok /\ exitCode = 1

IsUpperCase(s) == \A i \in 1..Len(s) : s[i] \notin LowerLetters

\* C6: in every request body sent, by any command, source_lang and
\* target_lang are upper-case.
C6_LangsUpperCase ==
    \A i \in 1..Len(sent) :
        sent[i].method = "POST" =>
            /\ IsUpperCase(sent[i].body.source_lang)
            /\ IsUpperCase(sent[i].body.target_lang)
C6_Witness ==
    /\ cmd = "translate" /\ pc = "post"
    /\ inv.source = Set(<<"e", "E">>) /\ inv.target = Set(<<"e", "s">>)
    /\ sent[Len(sent)].body.source_lang = <<"E", "E">>
    /\ sent[Len(sent)].body.target_lang = <<"E", "S">>

\* the values stored in the config file, read off the file itself
PersistedURL ==
    IF cfgFile.kind = "json" /\ cfgFile.url.t = "str" THEN cfgFile.url.s ELSE NoStr
PersistedToken ==
    IF cfgFile.kind = "json" /\ cfgFile.token.t = "str" THEN cfgFile.token.s ELSE NoStr

\* C7: the URL and the token the main translate command uses are the flag if
\* given, else the environment variable, else the persisted value, else the
\* hard-coded default.
C7_SettingPriority ==
    (cmd = "translate" /\ pc \in {"probe", "post"})
    => /\ call.url = IF inv.url.set THEN inv.url.val
                     ELSE IF inv.envURL.set THEN inv.envURL.val
                     ELSE IF PersistedURL # NoStr THEN PersistedURL
                     ELSE <<"http://localhost:1188">>
       /\ call.token = IF inv.token.set THEN inv.token.val
                       ELSE IF inv.envTOKEN.set THEN inv.envTOKEN.val
                       ELSE IF inv.envDEEPLX.set THEN inv.envDEEPLX.val
                       ELSE IF PersistedToken # NoStr THEN PersistedToken
                       ELSE NoStr
C7_Witness ==
    /\ cmd = "translate" /\ pc = "post"
    /\ ~inv.url.set /\ inv.envURL.set /\ PersistedURL = CfgURL
    /\ ~inv.token.set /\ ~inv.envTOKEN.set /\ inv.envDEEPLX.set /\ PersistedToken = CfgTok
    /\ call.url = EnvURL /\ call.token = Env2Tok

\* C8: every translation request is a POST to <serverURL>/translate with the
\* JSON body of text, source_lang and target_lang and Content-Type
\* application/json, and has an Authorization: Bearer <token> header exactly
\* when the token passed to translate is not empty.
C8_RequestShape ==
    pc = "post"
    => LET rq == sent[Len(sent)]
       IN  /\ rq.method = "POST"
           /\ rq.url = call.url \o <<"/translate">>
           /\ rq.body = [text |-> call.text, source_lang |-> call.src,
                         target_lang |-> call.tgt]
           /\ <<"Content-Type", <<"application/json">> >> \in rq.headers
           /\ (\E h \in rq.headers : h[1] = "Authorization") <=> call.token # NoStr
           /\ \A h \in rq.headers :
                 h[1] = "Authorization" => h[2] = <<"Bearer">> \o call.token
C8_Witness ==
    /\ pc = "post" /\ call.token = FlagTok
    /\ <<"Authorization", <<"Bearer", "flag-token">> >> \in sent[Len(sent)].headers

HasGuidance(line) == Contains(line, <<DockerRun>>) \/ Contains(line, <<OtherServer>>)

\* C9: when no connection to the server can be made (refused, unresolvable or
\* timed out) the main translate command's error message holds the connection
\* guidance, nothing is printed on standard output and the exit code is 1.
C9_GuidanceWhenUnreachable ==
    (MainDone /\ ret.got = "probeerr"
       /\ ret.kind \in {"refused", "nohost", "dialtimeout", "deadline"})
    => /\ \E i \in 1..Len(errOut) : HasGuidance(errOut[i])
       /\ out = << >>
       /\ exitCode = 1

MainBlocked == cmd = "translate" /\ pc \in {"probe", "post"}

\* C10 as claimed: for every value of --timeout a network call of the main
\* translate command that is never answered ends, and the process exits.
C10_AnyTimeout == MainBlocked ~> (cmd = "translate" /\ pc = "done")

\* With a positive --timeout a network call of the main translate command
\* that is never answered fails at the deadline, and the process exits with a
\* non-zero code.
PositiveTimeoutTerminates ==
    /\ (MainBlocked /\ call.timeout > 0) ~> (cmd = "translate" /\ pc = "done")
    /\ [][(MainBlocked /\ ret'.kind \in {"deadline", "dialtimeout"})
            => (pc' = "done" /\ exitCode' # 0 /\ ~ret'.ok)]_vars
DeadlineReached ==
    /\ MainDone /\ inv.timeout = 1 /\ ret.kind = "deadline" /\ exitCode = 1

AttemptCmds == {"translate", "setup", "doctor"}

\* C11 as claimed: a command that attempts a translation exits 0 when it
\* succeeds and 1 whenever a translation attempt of the invocation failed.
C11_ExitOneOnAnyFailure ==
    (pc = "done" /\ cmd \in AttemptCmds)
    => /\ exitCode \in {0, 1}
       /\ ret.anyFailed => exitCode = 1
       /\ (ret.called /\ ~ret.anyFailed) => exitCode = 0

\* C11: the main translate command exits 0 when its translation succeeds and
\* 1 when it fails; setup and doctor exit 0 whether or not their translation
\* attempts fail.
C11_ExitCodes ==
    /\ (pc = "done" /\ cmd = "translate" /\ ret.called)
          => exitCode = IF ret.ok THEN 0 ELSE 1
    /\ (pc = "done" /\ cmd = "translate" /\ ~ret.called) => exitCode = 0
    /\ (pc = "done" /\ cmd \in {"setup", "doctor"}) => exitCode = 0
C11_Witness ==
    /\ pc = "done" /\ cmd = "doctor" /\ ret.called /\ ~ret.ok /\ ret.status = 401
    /\ exitCode = 0

NumPosts(reqs) == Cardinality({i \in 1..Len(reqs) : reqs[i].method = "POST"})

\* C12: no retries: an invocation of the main translate command issues at
\* most one POST, and once a network call has failed (the probe or the POST)
\* no further request is issued: the error is reported and the process exits.
C12_NoRetry ==
    cmd = "translate"
    => /\ NumPosts(sent) <= 1
       /\ ret.called => pc = "done"
       /\ (ret.called /\ ~ret.ok) =>
            /\ exitCode = 1 /\ errOut # << >>
            /\ ret.got = "probeerr" => (Len(sent) = 1 /\ sent[1].method = "GET")
            /\ ret.got # "probeerr" =>
                 (Len(sent) = 2 /\ sent[1].method = "GET" /\ sent[2].method = "POST")
C12_Witness ==
    /\ pc = "done" /\ cmd = "translate" /\ ret.got = "neterr" /\ ret.kind = "refused"
    /\ Len(sent) = 2 /\ exitCode = 1

\* the load of a config file fails when the file is missing or unreadable,
\* is not JSON, or holds a field that is not a string
LoadFails(file) ==
    \/ file.kind # "json"
    \/ file.url.t \notin {"absent", "null", "str"}
    \/ file.token.t \notin {"absent", "null", "str"}

ShowsEmptyConfig ==
    /\ out[2] = <<"Default URL:">>
    /\ out[3] # <<"Default Token: [configured]">>

\* C13: on any load failure (file missing, unreadable, malformed JSON, JSON
\* only partly of the expected shape) loadConfig returns the empty defaults,
\* which is what config show then prints.
C13_LoadFailureGivesDefaults ==
    LoadFails(cfgFile)
    => /\ loadConfig(cfgFile) = ZeroConfig
       /\ (pc = "done" /\ cmd = "config_show") => ShowsEmptyConfig

SaveFailureReported ==
    \/ \E i \in 1..Len(out) : Contains(out[i], <<SaveErrText>>)
    \/ \E i \in 1..Len(errOut) : Contains(errOut[i], <<SaveErrText>>)
SaysSaved == \E i \in 1..Len(out) : out[i] = <<"Configuration saved!">>

\* C14: a failed saveConfig is never swallowed: in config set and in setup
\* the failure is reported, the process exits with a non-zero code, and no
\* 'Configuration saved' message is printed.
C14_SaveFailureSurfaced ==
    saveRes = "failed"
    => /\ SaveFailureReported
       /\ ~SaysSaved
       /\ pc = "done" /\ exitCode # 0

\* C15: after config set --url X --token Y has succeeded with X and Y not
\* empty the file holds X and Y, so that a later process loads them, and
\* config show on such a file prints X and a masked token indicator, never Y.
C15_ConfigPersisted ==
    /\ (pc = "done" /\ cmd = "config_set" /\ saveRes = "ok"
          /\ inv.setURL.val # NoStr /\ inv.setToken.val # NoStr)
       => /\ PersistedURL = inv.setURL.val
          /\ PersistedToken = inv.setToken.val
          /\ loadConfig(cfgFile) = [DefaultURL |-> inv.setURL.val,
                                    DefaultToken |-> inv.setToken.val]
    /\ (pc = "done" /\ cmd = "config_show" /\ ~LoadFails(cfgFile)
          /\ PersistedToken # NoStr)
       => /\ out[2] = <<"Default URL:">> \o PersistedURL
          /\ out[3] = <<"Default Token: [configured]">>
          /\ \A i \in 1..Len(out) : ~Contains(out[i], PersistedToken)
C15_Witness ==
    /\ pc = "done" /\ cmd = "config_show"
    /\ cfgFile = FileJson(JStr(CfgURL), JStr(CfgTok))
    /\ out[2] = <<"Default URL:", "http://cfg.example">>
    /\ out[3] = <<"Default Token: [configured]">>

\* where argument k starts in the joined text: after the arguments before it
\* and one space for each of them
RECURSIVE ArgOffset(_, _)
ArgOffset(args, k) ==
    IF k = 1 THEN 0 ELSE ArgOffset(args, k - 1) + Len(args[k - 1]) + 1

IsJoinOf(text, args) ==
    LET n == Len(args)
    IN  /\ Len(text) = ArgOffset(args, n) + Len(args[n])
        /\ \A k \in 1..n :
              /\ SubSeq(text, ArgOffset(args, k) + 1, ArgOffset(args, k) + Len(args[k]))
                    = args[k]
              /\ k > 1 => text[ArgOffset(args, k)] = " "

\* C16: the text the main translate command sends is its positional
\* arguments, all of them, in order and unchanged, with one space between
\* each two.
C16_TextIsJoinedArgs ==
    (cmd = "translate" /\ pc \in {"probe", "post"})
    => /\ IsJoinOf(call.text, inv.args)
       /\ pc = "post" => sent[Len(sent)].body.text = call.text
C16_Witness ==
    /\ cmd = "translate" /\ pc = "post"
    /\ inv.args = << <<"Hola">>, <<"mundo">> >>
    /\ sent[Len(sent)].body.text = <<"Hola", " ", "mundo">>

\* C17: the text of every translation request is non-empty: the main
\* translate command issues no probe and no POST for an empty text, whatever
\* the positional arguments.
C17_TextNonEmpty ==
    /\ (cmd = "translate" /\ pc \in {"probe", "post"}) => call.text # NoStr
    /\ \A i \in 1..Len(sent) : sent[i].method = "POST" => sent[i].body.text # NoStr

PayloadAlts(body) ==
    IF body.v.t = "obj" /\ body.v.alternatives.t = "arr"
    THEN body.v.alternatives.l ELSE << >>

\* C18: after a successful translation the main translate command prints the
\* primary translation and then, exactly when --alternatives is set and the
\* response lists at least one alternative, the alternatives numbered from 1
\* in the order of the response; otherwise only the primary translation.
C18_Alternatives ==
    (MainAnswered /\ ret.ok)
    => LET alts == PayloadAlts(ret.body)
       IN  /\ out[1] = PayloadData(ret.body)
           /\ IF inv.alternatives /\ Len(alts) > 0
              THEN /\ Len(out) = Len(alts) + 2
                   /\ out[2] = <<"Alternatives:">>
                   /\ \A i \in 1..Len(alts) : out[i + 2] = <<Itoa(i), ".">> \o alts[i]
              ELSE Len(out) = 1
C18_Witness ==
    /\ MainAnswered /\ ret.ok /\ inv.alternatives
    /\ out = << <<"Hola">>, <<"Alternatives:">>, <<"1", ".", "Buenas">>,
                <<"2", ".", "Saludos">> >>

ReadOnlyCmds == {"translate", "doctor", "config_show"}

\* C19: no step of the main translate command, of doctor or of config show
\* changes the config file, whether the command succeeds or fails; the file
\* is written only by config set and setup.
C19_ConfigFileUntouched ==
    [][/\ cmd' \in ReadOnlyCmds => cfgFile' = cfgFile
       /\ (cfgFile' # cfgFile /\ cmd' # "none") => cmd' \in {"config_set", "setup"}]_vars
C19_Witness ==
    /\ pc = "done" /\ cmd = "translate" /\ ret.ok /\ exitCode = 0
    /\ cfgFile = FileJson(JStr(CfgURL), JAbsent)

\* the most requests an invocation of each command can issue
MaxRequests(c) ==
    CASE c = "translate" -> 2
      [] c = "doctor" -> 3
      [] c = "setup" -> 8
      [] OTHER -> 0

\* every POST to /translate directly follows the GET probe of the same server
ProbedPosts(reqs) ==
    \A i \in 1..Len(reqs) :
        reqs[i].method = "POST"
        => /\ i > 1
           /\ reqs[i - 1].method = "GET"
           /\ reqs[i].url = reqs[i - 1].url \o <<"/translate">>

\* C20 as stated: an invocation issues at most one HTTP request
C20_OneRequest == Len(sent) <= 1

\* C20: an invocation of config set or config show issues no request; the
\* main translate command issues a GET probe and then at most one POST, two
\* requests at most; doctor issues at most three and setup at most eight; each
\* POST directly follows the GET probe of the same server.
C20_RequestsPerInvocation ==
    /\ Len(sent) <= MaxRequests(cmd)
    /\ ProbedPosts(sent)
    /\ (cmd = "translate" /\ pc = "done" /\ ret.called /\ ret.got # "probeerr")
         => Len(sent) = 2
C20_Witness ==
    /\ pc = "done" /\ cmd = "translate" /\ ret.ok /\ exitCode = 0
    /\ Len(sent) = 2 /\ sent[1].method = "GET" /\ sent[2].method = "POST"

\* C21: within a translate call the probe comes first: the step that sends
\* the POST is taken from the probe of that call, after its GET to the same
\* base URL obtained an HTTP response, and a translate call whose probe ends
\* any other way returns the probe's error and sends no POST.
C21_ProbeFirst ==
    [][/\ (pc' = "post" /\ pc # "post")
            => /\ pc = "probe" /\ call.inTranslate
               /\ call'.probe \in Statuses
               /\ sent[Len(sent)] = GetRequest(call.url)
               /\ sent' = Append(sent, PostRequest(call))
               /\ sent'[Len(sent')].url = call.url \o <<"/translate">>
       /\ (pc = "probe" /\ call.inTranslate /\ pc' \notin {"post", "probe"})
            => /\ NumPosts(sent') = NumPosts(sent)
               /\ ret'.called /\ ~ret'.ok /\ ret'.got = "probeerr"
               /\ ret'.err = ProbeError(call.url, ret'.kind)]_vars
C21_Witness ==
    /\ pc = "post" /\ cmd = "translate" /\ call.probe = HTTPStatusOK
    /\ Len(sent) = 2 /\ sent[1] = GetRequest(call.url) /\ sent[2].method = "POST"

IsParseFailure(err)   == Len(err) > 0 /\ Head(err) = "failed to parse response:"
IsPayloadFailure(err) == Len(err) > 0 /\ Head(err) = "translation failed with code"

\* C22: a received response is classified by its status first, then by the
\* well-formedness of its body, then by its payload code: with a status other
\* than 200 the error is the one of the status and never the parse failure or
\* the payload-level failure, whatever the body; with status 200 and a body
\* that does not decode the error is the parse failure; the payload-level
\* failure is returned only for status 200 and a body that decodes.
C22_ClassificationOrder ==
    (ret.called /\ ret.got = "response")
    => /\ ret.status # HTTPStatusOK
            => /\ ~ret.ok
               /\ ErrKind(ret.err) = StatusKind(ret.status)
               /\ ~IsParseFailure(ret.err) /\ ~IsPayloadFailure(ret.err)
       /\ (ret.status = HTTPStatusOK /\ ~WellShaped(ret.body))
            => ~ret.ok /\ IsParseFailure(ret.err) /\ ~IsPayloadFailure(ret.err)
       /\ IsPayloadFailure(ret.err)
            => /\ ret.status = HTTPStatusOK /\ WellShaped(ret.body)
               /\ PayloadCode(ret.body) # HTTPStatusOK
C22_Witness ==
    /\ pc = "done" /\ cmd = "translate" /\ ret.got = "response"
    /\ ret.status = 500
    /\ ret.body = JsonBody(JObj(JNum(503), JStr(<<"busy">>), JAbsent))
    /\ ret.err = <<"server returned status", "500", ":">> \o RawBody(ret.body)

\* what the caller of checkServerConnection does next when nil was returned:
\* translate sends its POST, setup and doctor print their mark of success
ProbeSaidReachable ==
    IF call.inTranslate
    THEN pc' = "post" /\ sent' = Append(sent, PostRequest(call))
    ELSE /\ Len(out') > Len(out)
         /\ out'[Len(out) + 1] \in {<<"Found!">>, <<"Connected">>, <<"OK">>}
\* ... and when an error was returned
ProbeSaidError ==
    IF call.inTranslate
    THEN pc' \notin {"post", "probe"} /\ ret'.got = "probeerr" /\ sent' = sent
    ELSE /\ Len(out') > Len(out)
         /\ out'[Len(out) + 1] \in {<<"Not found">>, <<"Failed">>}

\* C23: checkServerConnection reports the server as reachable for any HTTP
\* response to the GET, whatever its status, and so the POST of translate
\* follows a probe answered with an error status; it reports an error only
\* when the GET obtained no response.
C23_AnyStatusIsReachable ==
    /\ [][pc = "probe"
            => /\ \A st \in Statuses : ProbeResponds(st) => ProbeSaidReachable
               /\ ProbeSaidError => (\A st \in Statuses : ~ProbeResponds(st))]_vars
    /\ [](pc = "post" => call.probe \in Statuses)
    /\ []((ret.called /\ ret.got = "probeerr")
            => (ret.kind \in NetErrKinds /\ ret.status = 0))
C23_Witness ==
    /\ pc = "post" /\ call.probe = HTTPStatusUnauthorized
    /\ sent[Len(sent)] = PostRequest(call)

\* a step of setup that calls saveConfig and can be seen to
SetupSaves ==
    /\ cmd = "setup" /\ cmd' = "setup"
    /\ cfgFile' # cfgFile \/ saveRes' # saveRes

\* C24: setup saves only what it has just verified: every save is the step
\* that follows the answer to the POST of a translate call that succeeded,
\* made after a probe of the same server that was answered, and it stores the
\* URL and the token of exactly that call; no save is made on the return of a
\* failed probe or of a failed test translation.
C24_SaveOnlyVerified ==
    [][SetupSaves
         => /\ pc = "post" /\ call.probe \in Statuses
            /\ ret'.ok /\ ret'.got = "response" /\ ret'.status = HTTPStatusOK
            /\ sent' = sent
            /\ sent[Len(sent) - 1] = GetRequest(call.url)
            /\ sent[Len(sent)] = PostRequest(call)
            /\ saveRes' = "ok"
                 => cfgFile' = SavedFile([DefaultURL |-> call.url,
                                          DefaultToken |-> call.token])
            /\ saveRes' # "ok"
                 => saveRes' = "failed" /\ cfgFile' \in FailedSaveFiles(cfgFile)]_vars
C24_Witness ==
    /\ cmd = "setup" /\ pc = "done" /\ saveRes = "ok" /\ ret.ok /\ ret.anyFailed
    /\ cfgFile = FileJson(JStr(HardURL), JStr(TypedTok))
    /\ sent[Len(sent)] = PostRequest([url |-> HardURL, token |-> TypedTok,
                                      text |-> <<"test">>, src |-> <<"A", "U", "T", "O">>,
                                      tgt |-> <<"E", "N">>])

\* a step that is a run of config set whose save succeeded, on a file that loads
ConfigSetSaved ==
    /\ cmd = "none" /\ cmd' = "config_set" /\ saveRes' = "ok"
    /\ ~LoadFails(cfgFile)

Answered401 == ret.called /\ ret.got = "response" /\ ret.status = HTTPStatusUnauthorized
HasTip == \E i \in 1..Len(out) : out[i] = <<"Tip: This server requires authentication.">>
AskedForToken == \E i \in 1..Len(out) : out[i] = <<"Server requires authentication">>

\* C26: setup and doctor treat a failed translate call as an authentication
\* failure exactly when its POST was answered with status 401: doctor prints
\* the token tip, and setup prompts for a token after its first test
\* translation, if and only if that call was answered with 401.
C26_AuthOnly401 ==
    /\ (cmd = "doctor" /\ pc = "done" /\ ret.called /\ ~ret.ok)
         => (HasTip <=> Answered401)
    /\ (cmd = "setup" /\ pc = "ask_token") => Answered401
    /\ (cmd = "setup" /\ ret.called /\ Len(sent) = 3)
         => (AskedForToken <=> Answered401)

SaysNoLocalServer ==
    \E i \in 1..Len(out) : out[i] = <<"No local DeepLX server found.">>
\* the probe setup makes of the local server failed, or the probe that the
\* test translation last made of it did
LocalProbeFailed ==
    \/ Len(out) >= 3 /\ out[3] = <<"Not found">>
    \/ ret.called /\ ret.got = "probeerr"

\* C27: setup prints 'No local DeepLX server found' and its menu only in
\* runs where a probe of http://localhost:1188 failed: at the moment the menu
\* has been printed and the choice is awaited, a probe of the local server has
\* failed in this run.
C27_MenuOnlyWithoutLocalServer ==
    (cmd = "setup" /\ pc = "ask_choice")
    => /\ SaysNoLocalServer
       /\ LocalProbeFailed

\* a token's value hidden: all that is left is whether there is one
Mask(t) == IF t = NoStr THEN NoStr ELSE <<"*">>
\* ... and whether it can be sent as a header value
MaskValid(t) ==
    IF t = NoStr THEN NoStr ELSE IF ValidHeaderValue(t) THEN <<"*">> ELSE <<"!">>
MaskInv(i, M(_)) ==
    [i EXCEPT !.token.val = M(@), !.envTOKEN.val = M(@), !.envDEEPLX.val = M(@),
              !.setToken.val = M(@)]
MaskFile(f, M(_)) ==
    IF f.token.t = "str" THEN [f EXCEPT !.token = JStr(M(f.token.s))] ELSE f

\* what the server answered to the probes of a run and, where a POST reached
\* it, to the POST
ProbeAnswers(r) ==
    [called |-> r.called,
     failed |-> IF r.called /\ r.got = "probeerr" THEN r.kind ELSE "none"]
Posted(r) == r.called /\ r.got \in {"response", "readerr", "neterr"}
PostAnswer(r) == [got |-> r.got, kind |-> r.kind, status |-> r.status, body |-> r.body]
SameServer(m) ==
    /\ ProbeAnswers(m.ret) = ProbeAnswers(ret)
    /\ (Posted(m.ret) /\ Posted(ret)) => PostAnswer(m.ret) = PostAnswer(ret)

\* the run kept and the run just finished are runs of the same command line,
\* environment, config file and server, up to what M hides of the tokens
SameRunUpTo(M(_)) ==
    /\ pc = "done" /\ memo.kept
    /\ memo.cmd = cmd
    /\ MaskInv(memo.inv, M) = MaskInv(inv, M)
    /\ cmd \in ReadOnlyCmds => MaskFile(memo.file, M) = MaskFile(cfgFile, M)
    /\ memo.saveRes = saveRes
    /\ SameServer(memo)

Gets(reqs) == SelectSeq(reqs, LAMBDA r : r.method = "GET")
SameObserved ==
    /\ memo.out = out
    /\ memo.errOut = errOut
    /\ Gets(memo.sent) = Gets(sent)

AllToks == {FlagTok, EnvTok, Env2Tok, CfgTok, TypedTok, OtherTok, BadTok}
ShowsNoToken(lines) ==
    \A i \in 1..Len(lines) : \A t \in AllToks : ~Contains(lines[i], t)
NoTokenShown ==
    /\ ShowsNoToken(out) /\ ShowsNoToken(errOut)
    /\ \A i \in 1..Len(sent) :
          /\ \A t \in AllToks : ~Contains(sent[i].url, t)
          /\ sent[i].method = "GET" => sent[i].headers = {}

====
